---- MODULE Spec2Model ----
(***************************************************************************)
(* Model of scripts/static/graph_interactivity.js (ReefKit/Guitar_Tuning): *)
(* the gigset path session (node clicks, reset, label toggle, constraint   *)
(* edits) and the functions behind it: noteToMidi, parseMonotonicTuning,   *)
(* getAdjacentNodes, getPitchVector, simulateAbsolutePitches,              *)
(* isTranspositionPossible and canAddNode.                                 *)
(*                                                                         *)
(* Text is modelled as a sequence of one-character strings, so that the    *)
(* regular expression of noteToMidi, trim() and split(/\s+/) are computed  *)
(* rather than assumed.  Arrays are 1-based sequences: string index i of   *)
(* the source is index i+1 here.  The globals a function reads (the path,  *)
(* minPitchPerString, maxPitchPerString) are passed to its operator as the *)
(* parameters path, minP and maxP, so that a handler can evaluate it on    *)
(* the values it has just written.                                         *)
(***************************************************************************)
EXTENDS Integers, Sequences, FiniteSets, TLC

VARIABLES
    gigsetPath,            \* let gigsetPath: node ids, in click order
    minPitchPerString,     \* const minPitchPerString (elements are written)
    maxPitchPerString,     \* const maxPitchPerString (elements are written)
    cachedAbsolutePitches, \* let cachedAbsolutePitches
    showSongs,             \* let showSongs
    nodeColor,             \* the colour updateHighlighting gave each node
    event,                 \* the handler that ran last, what it was given, what it did
    edits,                 \* number of accepted constraint edits so far
    label,                 \* the text given to parseMonotonicTuning called directly
    pitchesIn,             \* the tunings given to isTranspositionPossible called directly
    call                   \* a function called directly on the state, and its result

vars == <<gigsetPath, minPitchPerString, maxPitchPerString, cachedAbsolutePitches,
          showSongs, nodeColor, event, edits, label, pitchesIn, call>>

(***************************************************************************)
(* Bounds of the model.                                                    *)
(***************************************************************************)
MaxEdits == 2        \* accepted constraint edits in one behaviour
MaxTokens == 6       \* tokens of a label given to parseMonotonicTuning
MaxTunings == 2      \* tunings of a sequence given to isTranspositionPossible
MaxPathLen == 3      \* nodes of a path given to canAddNode directly

(***************************************************************************)
(* Text helpers: String.prototype.trim and split(/\s+/).                   *)
(***************************************************************************)
IsSpace(c) == c \in {" ", "\t", "\n"}

RECURSIVE TrimLeft(_)
TrimLeft(s) ==
    IF s = <<>> THEN <<>>
    ELSE IF IsSpace(Head(s)) THEN TrimLeft(Tail(s)) ELSE s

RECURSIVE TrimRight(_)
TrimRight(s) ==
    IF s = <<>> THEN <<>>
    ELSE IF IsSpace(s[Len(s)]) THEN TrimRight(SubSeq(s, 1, Len(s) - 1)) ELSE s

Trim(s) == TrimRight(TrimLeft(s))

\* s.split(/\s+/): the pieces between maximal runs of whitespace.  acc is the
\* list of finished pieces, cur the piece being read; "" splits to [""].
RECURSIVE SplitFrom(_, _, _)
SplitFrom(s, acc, cur) ==
    IF s = <<>> THEN Append(acc, cur)
    ELSE IF IsSpace(Head(s))
         THEN SplitFrom(TrimLeft(s), Append(acc, cur), <<>>)
         ELSE SplitFrom(Tail(s), acc, Append(cur, Head(s)))

SplitWs(s) == SplitFrom(s, <<>>, <<>>)

(***************************************************************************)
(* noteToMidi: /^([A-Ga-g])([#b]?)(-?\d+)$/ on note.trim().                *)
(***************************************************************************)
Letters == {"A", "B", "C", "D", "E", "F", "G", "a", "b", "c", "d", "e", "f", "g"}
Digits == {"0", "1", "2", "3", "4", "5", "6", "7", "8", "9"}

DigitVal(c) ==
    CASE c = "0" -> 0 [] c = "1" -> 1 [] c = "2" -> 2 [] c = "3" -> 3
      [] c = "4" -> 4 [] c = "5" -> 5 [] c = "6" -> 6 [] c = "7" -> 7
      [] c = "8" -> 8 [] c = "9" -> 9

\* letter.toUpperCase() followed by the lookup {C:0, D:2, E:4, F:5, G:7, A:9, B:11}
LetterOffset(c) ==
    CASE c \in {"C", "c"} -> 0 [] c \in {"D", "d"} -> 2 [] c \in {"E", "e"} -> 4
      [] c \in {"F", "f"} -> 5 [] c \in {"G", "g"} -> 7 [] c \in {"A", "a"} -> 9
      [] c \in {"B", "b"} -> 11

AllDigits(s) == s # <<>> /\ \A k \in 1..Len(s) : s[k] \in Digits

\* parseInt of a string of decimal digits
RECURSIVE DigitsValue(_)
DigitsValue(s) ==
    IF s = <<>> THEN 0
    ELSE 10 * DigitsValue(SubSeq(s, 1, Len(s) - 1)) + DigitVal(s[Len(s)])

\* parseInt(octaveStr) for octaveStr matching -?\d+
ParseInt(s) == IF Head(s) = "-" THEN 0 - DigitsValue(Tail(s)) ELSE DigitsValue(s)

\* The regular expression: the groups [letter, accidental, octaveStr] of a match,
\* or no match.  After the letter, "#" or "b" can only be the accidental.
NoteMatch(s) ==
    IF s = <<>> \/ Head(s) \notin Letters THEN [ok |-> FALSE]
    ELSE LET rest1 == Tail(s)
             acc == IF rest1 # <<>> /\ Head(rest1) \in {"#", "b"}
                    THEN Head(rest1) ELSE ""
             rest2 == IF acc = "" THEN rest1 ELSE Tail(rest1)
             digs == IF rest2 # <<>> /\ Head(rest2) = "-" THEN Tail(rest2) ELSE rest2
         IN  IF AllDigits(digs)
             THEN [ok |-> TRUE, letter |-> Head(s), accidental |-> acc,
                   octaveStr |-> rest2]
             ELSE [ok |-> FALSE]

\* The result of noteToMidi: null, or a number v.
NullNumber == [null |-> TRUE, v |-> 0]
Number(n) == [null |-> FALSE, v |-> n]

\* Lines 591-602: the number of a match.
midiOfMatch(match) ==
    IF ~match.ok THEN NullNumber
    ELSE LET octave == ParseInt(match.octaveStr)
             base == LetterOffset(match.letter)
             semitoneOffset ==
                 IF match.accidental = "#" THEN base + 1
                 ELSE IF match.accidental = "b" THEN base - 1
                 ELSE base
         IN  Number((octave + 1) * 12 + semitoneOffset)

noteToMidi(note) == midiOfMatch(NoteMatch(Trim(note)))

(***************************************************************************)
(* parseMonotonicTuning.                                                   *)
(***************************************************************************)
\* The % operator of JavaScript: the remainder takes the sign of the dividend.
JsRem(a, n) == IF a >= 0 THEN a % n ELSE 0 - ((0 - a) % n)

\* The first loop: the pitch class of every token, or null at the first token
\* that noteToMidi rejects.  midis holds noteToMidi(note + "0") of every token.
pitchClassesOfMidis(midis) ==
    IF \E k \in 1..Len(midis) : midis[k].null
    THEN [null |-> TRUE, pitchClasses |-> <<>>]
    ELSE [null |-> FALSE,
          pitchClasses |-> [k \in 1..Len(midis) |-> JsRem(midis[k].v, 12)]]

midisOfNotes(rawNotes) ==
    [k \in 1..Len(rawNotes) |-> noteToMidi(Append(rawNotes[k], "0"))]

pitchClassesOf(tuningLabel) ==
    pitchClassesOfMidis(midisOfNotes(SplitWs(Trim(tuningLabel))))

\* while ((octave * 12 + pc) <= prev) octave++
RECURSIVE OctaveLoop(_, _, _)
OctaveLoop(pc, prev, octave) ==
    IF octave * 12 + pc <= prev THEN OctaveLoop(pc, prev, octave + 1) ELSE octave

\* A variant of the second loop that starts every string after the first in
\* octave 1
RECURSIVE AscendLoopFromOne(_, _)
AscendLoopFromOne(pitchClasses, pitches) ==
    IF pitchClasses = <<>> THEN pitches
    ELSE LET pc == Head(pitchClasses)
             octave == IF pitches = <<>> THEN 0
                       ELSE OctaveLoop(pc, pitches[Len(pitches)], 1)
         IN  AscendLoopFromOne(Tail(pitchClasses), Append(pitches, octave * 12 + pc))

\* The second loop; prev starts at -Infinity, below every pitch.
RECURSIVE AscendLoop(_, _)
AscendLoop(pitchClasses, pitches) ==
    IF pitchClasses = <<>> THEN pitches
    ELSE LET pc == Head(pitchClasses)
             octave == IF pitches = <<>> THEN 0
                       ELSE OctaveLoop(pc, pitches[Len(pitches)], 0)
         IN  AscendLoop(Tail(pitchClasses), Append(pitches, octave * 12 + pc))

\* The result: null, or the array of pitches.
pitchesOfClasses(pcs) ==
    IF pcs.null THEN [null |-> TRUE, pitches |-> <<>>]
    ELSE [null |-> FALSE, pitches |-> AscendLoop(pcs.pitchClasses, <<>>)]

parseMonotonicTuning(tuningLabel) == pitchesOfClasses(pitchClassesOf(tuningLabel))

(***************************************************************************)
(* The graph (network.body.data.nodes / edges): supplied by the page, never *)
(* written by the script.  A tuning_label of "" stands for a node without   *)
(* one (both are falsy in the test of simulateAbsolutePitches).  An edge's  *)
(* pitch_vector is the text the page stores, integers separated by commas;  *)
(* "" stands for an edge without one (both are falsy in getPitchVector).    *)
(***************************************************************************)
StandardLabel == <<"E", " ", "A", " ", "D", " ", "G", " ", "B", " ", "E">>
DropDLabel == <<"D", " ", "A", " ", "D", " ", "G", " ", "B", " ", "E">>
DoubleDropDLabel == <<"D", " ", "A", " ", "D", " ", "G", " ", "B", " ", "D">>
RaisedBLabel == <<"E", " ", "A", " ", "D", " ", "G", " ", "C", " ", "E">>
BadLabel == <<"E", " ", "A", " ", "D", " ", "G", " ", "B", " ", "H">>
ShortLabel == <<"E", " ", "A", " ", "D">>

NodeData ==
    << [id |-> 1, tuning_label |-> StandardLabel],
       [id |-> 2, tuning_label |-> DropDLabel],
       [id |-> 3, tuning_label |-> DoubleDropDLabel],
       [id |-> 4, tuning_label |-> RaisedBLabel],
       [id |-> 5, tuning_label |-> <<>>],
       [id |-> 6, tuning_label |-> BadLabel],
       [id |-> 7, tuning_label |-> ShortLabel] >>

Nodes == {NodeData[k].id : k \in 1..Len(NodeData)}

\* The edges in the order network.getConnectedEdges lists them.  Edge 2 is
\* stored against the direction in which a path from node 1 walks it.
EdgeData ==
    << [id |-> 1, from |-> 1, to |-> 2,
        pitch_vector |-> <<"-", "2", ",", "0", ",", "0", ",", "0", ",", "0", ",", "0">>],
       [id |-> 2, from |-> 3, to |-> 2,
        pitch_vector |-> <<"0", ",", "0", ",", "0", ",", "0", ",", "0", ",", "2">>],
       [id |-> 3, from |-> 1, to |-> 4,
        pitch_vector |-> <<"0", ",", "0", ",", "0", ",", "0", ",", "1", ",", "0">>],
       [id |-> 4, from |-> 5, to |-> 1,
        pitch_vector |-> <<"0", ",", "0", ",", "0", ",", "0", ",", "0", ",", "0">>],
       [id |-> 5, from |-> 2, to |-> 6,
        pitch_vector |-> <<>>],
       [id |-> 6, from |-> 6, to |-> 1,
        pitch_vector |-> <<"0", ",", "0", ",", "0", ",", "0", ",", "0", ",", "0">>],
       [id |-> 7, from |-> 7, to |-> 2,
        pitch_vector |-> <<"-", "2", ",", "0", ",", "0", ",", "0", ",", "0", ",", "0">>],
       [id |-> 8, from |-> 4, to |-> 3,
        pitch_vector |-> <<"-", "2", ",", "0", ",", "0", ",", "0", ",", "-", "1", ",", "-", "2">>] >>

\* network.body.data.nodes.get(id): the node, or null for an unknown id
HasNode(id) == id \in Nodes
NodeOf(id) == NodeData[CHOOSE k \in 1..Len(NodeData) : NodeData[k].id = id]

\* parseMonotonicTuning(node.tuning_label) of every node: the labels never
\* change, so the table is computed once.
parsedTuning == [id \in Nodes |-> parseMonotonicTuning(NodeOf(id).tuning_label)]

\* network.getConnectedEdges(nodeId): indices into EdgeData, in order
ConnectedEdges(nodeId) ==
    SelectSeq([k \in 1..Len(EdgeData) |-> k],
              LAMBDA k : EdgeData[k].from = nodeId \/ EdgeData[k].to = nodeId)

getAdjacentNodes(nodeId) ==
    LET ce == ConnectedEdges(nodeId)
    IN  { IF EdgeData[ce[j]].from = nodeId THEN EdgeData[ce[j]].to
          ELSE EdgeData[ce[j]].from : j \in 1..Len(ce) }

(***************************************************************************)
(* JavaScript numbers inside a tuning: an integer or NaN.                  *)
(***************************************************************************)
Num(n) == [nan |-> FALSE, v |-> n]
NaN == [nan |-> TRUE, v |-> 0]
Plus(a, b) == IF a.nan \/ b.nan THEN NaN ELSE Num(a.v + b.v)

Neg(a) == IF a.nan THEN NaN ELSE Num(0 - a.v)

\* array[idx] read as a number operand: undefined (past the end) acts as NaN
At(array, idx) == IF idx \in 1..Len(array) THEN array[idx] ELSE NaN

Strings == 1..6

\* Math.max and Math.min folded over a non-empty set of integers
MaxOf(S) == CHOOSE x \in S : \A y \in S : y <= x
MinOf(S) == CHOOSE x \in S : \A y \in S : x <= y

(***************************************************************************)
(* getPitchVector.                                                         *)
(***************************************************************************)
\* raw.split(','): the fields between the commas.  acc is the list of
\* finished fields, cur the field being read.
RECURSIVE SplitComma(_, _, _)
SplitComma(s, acc, cur) ==
    IF s = <<>> THEN Append(acc, cur)
    ELSE IF Head(s) = ","
         THEN SplitComma(Tail(s), Append(acc, cur), <<>>)
         ELSE SplitComma(Tail(s), acc, Append(cur, Head(s)))

\* Number(field) of the digits of a trimmed field, sign taken off
numberOfDigits(sign, digs) ==
    IF ~AllDigits(digs) THEN NaN
    ELSE IF sign = "-" THEN Num(0 - DigitsValue(digs))
    ELSE Num(DigitsValue(digs))

\* Number(field) of a trimmed field: "" is 0, a decimal integer with an
\* optional sign is its value, any other text of the model is NaN
numberOfTrimmed(t) ==
    IF t = <<>> THEN Num(0)
    ELSE IF Head(t) \in {"-", "+"} THEN numberOfDigits(Head(t), Tail(t))
    ELSE numberOfDigits("+", t)

ToNumber(field) == numberOfTrimmed(Trim(field))

numbersOfFields(fields) == [k \in 1..Len(fields) |-> ToNumber(fields[k])]

\* raw.split(',').map(Number)
vectorOfRaw(raw) == numbersOfFields(SplitComma(raw, <<>>, <<>>))

\* raw.split(',').map(Number) of every edge: the vectors never change, so
\* the table is computed once.
parsedVector == [k \in 1..Len(EdgeData) |-> vectorOfRaw(EdgeData[k].pitch_vector)]

Connects(k, fromId, toId) ==
    \/ EdgeData[k].from = fromId /\ EdgeData[k].to = toId
    \/ EdgeData[k].to = fromId /\ EdgeData[k].from = toId

\* A variant that returns the vector as stored, whatever the direction
vectorOfEdgeAsStored(k, fromId) ==
    IF EdgeData[k].pitch_vector = <<>> THEN [null |-> TRUE, vector |-> <<>>]
    ELSE [null |-> FALSE, vector |-> parsedVector[k]]

\* Lines 952-964: the vector of the edge found (k is its place in EdgeData),
\* turned to point fromId -> toId.
vectorOfEdge(k, fromId) ==
    IF EdgeData[k].pitch_vector = <<>> THEN [null |-> TRUE, vector |-> <<>>]
    ELSE IF EdgeData[k].from = fromId
         THEN [null |-> FALSE, vector |-> parsedVector[k]]
         ELSE [null |-> FALSE,
               vector |-> [i \in 1..Len(parsedVector[k]) |-> Neg(parsedVector[k][i])]]

vectorOfFound(found, fromId) ==
    IF found = <<>> THEN [null |-> TRUE, vector |-> <<>>]
    ELSE vectorOfEdge(Head(found), fromId)

\* null, or the vector in the direction fromId -> toId
getPitchVector(fromId, toId) ==
    vectorOfFound(SelectSeq(ConnectedEdges(fromId),
                            LAMBDA k : Connects(k, fromId, toId)),
                  fromId)

(***************************************************************************)
(* simulateAbsolutePitches.                                                *)
(***************************************************************************)
\* Lines 992-1009: the window of transpositions of the first tuning.  With a
\* relativeTuning of fewer than six entries some t_i is undefined, lower and
\* upper become NaN, "lower > upper" is false and the transposition is NaN.
\* A variant that takes the bottom of the window instead of its top
windowChoiceLowest(lower, upper) ==
    IF lower > upper THEN [null |-> TRUE, t |-> NaN]
    ELSE [null |-> FALSE, t |-> Num(lower)]

windowChoice(lower, upper) ==
    IF lower > upper THEN [null |-> TRUE, t |-> NaN]
    ELSE [null |-> FALSE, t |-> Num(upper)]

firstTransposition(relativeTuning, minP, maxP) ==
    IF Len(relativeTuning) < 6 THEN [null |-> FALSE, t |-> NaN]
    ELSE windowChoice(MaxOf({minP[i] - relativeTuning[i] : i \in Strings}),
                      MinOf({maxP[i] - relativeTuning[i] : i \in Strings}))

\* current.map((p, idx) => p + vector[idx])
applyVector(current, vector) ==
    [idx \in 1..Len(current) |-> Plus(current[idx], At(vector, idx))]

\* Lines 1014-1025: the loop over the rest of the path, from index i (1-based).
RECURSIVE walkPath(_, _, _, _)
walkFrom(path, i, next, pitches) == walkPath(path, i + 1, next, Append(pitches, next))

walkStep(path, i, current, pitches, got) ==
    IF got.null THEN [null |-> TRUE, pitches |-> <<>>]
    ELSE walkFrom(path, i, applyVector(current, got.vector), pitches)

walkPath(path, i, current, pitches) ==
    IF i > Len(path) THEN [null |-> FALSE, pitches |-> pitches]
    ELSE walkStep(path, i, current, pitches, getPitchVector(path[i - 1], path[i]))

\* Lines 1010-1011: the first absolute tuning
firstTuning(relativeTuning, transposition) ==
    [idx \in 1..Len(relativeTuning) |-> Plus(Num(relativeTuning[idx]), transposition)]

walkFirst(path, current) == walkPath(path, 2, current, <<current>>)

simulateFirst(path, relativeTuning, first) ==
    IF first.null THEN [null |-> TRUE, pitches |-> <<>>]
    ELSE walkFirst(path, firstTuning(relativeTuning, first.t))

simulateParsed(path, minP, maxP, parsed) ==
    IF parsed.null THEN [null |-> TRUE, pitches |-> <<>>]
    ELSE simulateFirst(path, parsed.pitches,
                       firstTransposition(parsed.pitches, minP, maxP))

\* null, or the array of tunings (each an array of numbers)
simulateAbsolutePitches(path, minP, maxP) ==
    IF path = <<>> \/ ~HasNode(path[1]) \/ NodeOf(path[1]).tuning_label = <<>>
    THEN [null |-> TRUE, pitches |-> <<>>]
    ELSE simulateParsed(path, minP, maxP, parsedTuning[path[1]])

(***************************************************************************)
(* isTranspositionPossible.  A NaN or missing entry among the six strings  *)
(* of any tuning makes both global bounds NaN, and NaN <= NaN is false.     *)
(* The sequences of the model hold no null tuning (line 1041).             *)
(***************************************************************************)
\* A variant that intersects the windows of the first and the last tuning only
isTranspositionPossibleEnds(pitches, minP, maxP) ==
    IF \E k \in 1..Len(pitches) : \E i \in Strings :
           i > Len(pitches[k]) \/ pitches[k][i].nan
    THEN FALSE
    ELSE IF pitches = <<>> THEN TRUE
    ELSE MaxOf({minP[i] - pitches[k][i].v : k \in {1, Len(pitches)}, i \in Strings})
             <= MinOf({maxP[i] - pitches[k][i].v : k \in {1, Len(pitches)}, i \in Strings})

\* A variant that intersects the windows of the last tuning only
isTranspositionPossibleLastOnly(pitches, minP, maxP) ==
    IF \E k \in 1..Len(pitches) : \E i \in Strings :
           i > Len(pitches[k]) \/ pitches[k][i].nan
    THEN FALSE
    ELSE IF pitches = <<>> THEN TRUE
    ELSE MaxOf({minP[i] - pitches[Len(pitches)][i].v : i \in Strings})
             <= MinOf({maxP[i] - pitches[Len(pitches)][i].v : i \in Strings})

\* A variant that intersects the windows of every tuning, string by string,
\* but never across strings
isTranspositionPossiblePerString(pitches, minP, maxP) ==
    IF \E k \in 1..Len(pitches) : \E i \in Strings :
           i > Len(pitches[k]) \/ pitches[k][i].nan
    THEN FALSE
    ELSE IF pitches = <<>> THEN TRUE
    ELSE \A i \in Strings :
             MaxOf({minP[i] - pitches[k][i].v : k \in 1..Len(pitches)})
                 <= MinOf({maxP[i] - pitches[k][i].v : k \in 1..Len(pitches)})

isTranspositionPossible(pitches, minP, maxP) ==
    IF \E k \in 1..Len(pitches) : \E i \in Strings :
           i > Len(pitches[k]) \/ pitches[k][i].nan
    THEN FALSE
    ELSE IF pitches = <<>> THEN TRUE
    ELSE LET globalLowerBound ==
                 MaxOf({minP[i] - pitches[k][i].v :
                           k \in 1..Len(pitches), i \in Strings})
             globalUpperBound ==
                 MinOf({maxP[i] - pitches[k][i].v :
                           k \in 1..Len(pitches), i \in Strings})
         IN  globalLowerBound <= globalUpperBound

(***************************************************************************)
(* canAddNode, with a record of whether it called simulateAbsolutePitches. *)
(***************************************************************************)
\* Lines 1096-1102: what canAddNode returns once it has simulated
\* A variant that accepts every candidate whose path simulates
resultOfSimulationUnchecked(sim, minP, maxP) ==
    [result |-> ~sim.null, simulated |-> TRUE]

\* A variant that accepts a candidate when the simulation returns null
resultOfSimulationNullAccepts(sim, minP, maxP) ==
    IF sim.null THEN [result |-> TRUE, simulated |-> TRUE]
    ELSE [result |-> isTranspositionPossible(sim.pitches, minP, maxP),
          simulated |-> TRUE]

resultOfSimulation(sim, minP, maxP) ==
    IF sim.null THEN [result |-> FALSE, simulated |-> TRUE]
    ELSE [result |-> isTranspositionPossible(sim.pitches, minP, maxP),
          simulated |-> TRUE]

\* A variant that simulates before it looks at adjacency
canAddNodeRunSimulatesFirst(path, minP, maxP, candidateId) ==
    IF Len(path) = 0 THEN [result |-> TRUE, simulated |-> FALSE]
    ELSE IF candidateId \notin getAdjacentNodes(path[Len(path)])
         THEN [result |-> FALSE, simulated |-> TRUE]
         ELSE resultOfSimulation(
                  simulateAbsolutePitches(Append(path, candidateId), minP, maxP),
                  minP, maxP)

\* A variant without the shortcut for the empty path
canAddNodeRunNoShortcut(path, minP, maxP, candidateId) ==
    IF Len(path) > 0 /\ candidateId \notin getAdjacentNodes(path[Len(path)])
    THEN [result |-> FALSE, simulated |-> FALSE]
    ELSE resultOfSimulation(
             simulateAbsolutePitches(Append(path, candidateId), minP, maxP),
             minP, maxP)

canAddNodeRun(path, minP, maxP, candidateId) ==
    IF Len(path) = 0 THEN [result |-> TRUE, simulated |-> FALSE]
    ELSE IF candidateId \notin getAdjacentNodes(path[Len(path)])
         THEN [result |-> FALSE, simulated |-> FALSE]
         ELSE resultOfSimulation(
                  simulateAbsolutePitches(Append(path, candidateId), minP, maxP),
                  minP, maxP)

canAddNode(path, minP, maxP, candidateId) ==
    canAddNodeRun(path, minP, maxP, candidateId).result

(***************************************************************************)
(* updateHighlighting: the cache and the node colours, computed from the   *)
(* path and the constraints as the handler has just left them.             *)
(***************************************************************************)
Includes(path, id) == \E k \in 1..Len(path) : path[k] = id

\* simulateAbsolutePitches(gigsetPath) || []
orEmpty(sim) == IF sim.null THEN <<>> ELSE sim.pitches

simulatedOrEmpty(path, minP, maxP) == orEmpty(simulateAbsolutePitches(path, minP, maxP))

\* A variant that highlights every adjacent node outside the path
colorOfUngated(path, minP, maxP, id) ==
    LET isSelected == Includes(path, id)
        isAdjacent == \/ Len(path) = 0
                      \/ id \in getAdjacentNodes(path[Len(path)])
    IN  IF isSelected THEN "selectedColor"
        ELSE IF ~isAdjacent THEN "defaultColor"
        ELSE "highlightColor"

colorOf(path, minP, maxP, id) ==
    LET isSelected == Includes(path, id)
        isAdjacent == \/ Len(path) = 0
                      \/ id \in getAdjacentNodes(path[Len(path)])
    IN  IF isSelected THEN "selectedColor"
        ELSE IF ~isAdjacent THEN "defaultColor"
        ELSE IF canAddNode(path, minP, maxP, id) THEN "highlightColor"
        ELSE "#aaaaaa"

\* path, minP and maxP are the values the calling handler leaves behind
updateHighlighting(path, minP, maxP) ==
    /\ cachedAbsolutePitches' = simulatedOrEmpty(path, minP, maxP)
    /\ nodeColor' = [id \in Nodes |-> colorOf(path, minP, maxP, id)]

(***************************************************************************)
(* The session: the state once the page has drawn the graph for the first  *)
(* time (network.once("afterDrawing", updateHighlighting)).                *)
(***************************************************************************)
DefaultMin == <<36, 41, 46, 51, 55, 60>>
DefaultMax == <<40, 45, 50, 55, 59, 64>>

\* What the page itself never touches: the inputs and the result of a
\* function called directly.
direct == <<label, pitchesIn, call>>
NoCall == [fn |-> "none", arg |-> 0, ret |-> 0]

SessionInit ==
    /\ gigsetPath = <<>>
    /\ minPitchPerString = DefaultMin
    /\ maxPitchPerString = DefaultMax
    /\ cachedAbsolutePitches = <<>>
    /\ showSongs = FALSE
    /\ nodeColor = [id \in Nodes |-> "highlightColor"]
    /\ event = [kind |-> "afterDrawing", on |-> "none", did |-> "none"]
    /\ edits = 0

Init ==
    /\ SessionInit
    /\ label = <<>>
    /\ pitchesIn = <<>>
    /\ call = NoCall

\* A variant of clickBranch that pushes every adjacent node not in the path
clickBranchUnchecked(nodeId) ==
    IF Len(gigsetPath) > 0 /\ gigsetPath[Len(gigsetPath)] = nodeId THEN "pop"
    ELSE IF /\ ~Includes(gigsetPath, nodeId)
            /\ \/ Len(gigsetPath) = 0
               \/ nodeId \in getAdjacentNodes(gigsetPath[Len(gigsetPath)])
         THEN "push"
    ELSE "none"

\* A variant of clickBranch that pops on a click on any node of the path
clickBranchPopsAny(nodeId) ==
    IF Includes(gigsetPath, nodeId) THEN "pop"
    ELSE IF /\ \/ Len(gigsetPath) = 0
               \/ nodeId \in getAdjacentNodes(gigsetPath[Len(gigsetPath)])
            /\ canAddNode(gigsetPath, minPitchPerString, maxPitchPerString, nodeId)
         THEN "push"
    ELSE "none"

\* What handleGigsetClick does to the path on a click on nodeId.
\* A variant that appends a node already in the path
clickBranchRevisits(nodeId) ==
    IF Len(gigsetPath) > 0 /\ gigsetPath[Len(gigsetPath)] = nodeId THEN "pop"
    ELSE IF /\ \/ Len(gigsetPath) = 0
               \/ nodeId \in getAdjacentNodes(gigsetPath[Len(gigsetPath)])
            /\ canAddNode(gigsetPath, minPitchPerString, maxPitchPerString, nodeId)
         THEN "push"
    ELSE "none"

clickBranch(nodeId) ==
    IF Len(gigsetPath) > 0 /\ gigsetPath[Len(gigsetPath)] = nodeId THEN "pop"
    ELSE IF /\ ~Includes(gigsetPath, nodeId)
            /\ \/ Len(gigsetPath) = 0
               \/ nodeId \in getAdjacentNodes(gigsetPath[Len(gigsetPath)])
            /\ canAddNode(gigsetPath, minPitchPerString, maxPitchPerString, nodeId)
         THEN "push"
    ELSE "none"

\* Where a click landed, relative to the path as the click found it
clickedOn(nodeId) ==
    IF Len(gigsetPath) > 0 /\ gigsetPath[Len(gigsetPath)] = nodeId THEN "last"
    ELSE IF Includes(gigsetPath, nodeId) THEN "inPath"
    ELSE "notInPath"

\* The path a branch leaves behind
pathAfter(branch, nodeId) ==
    CASE branch = "pop" -> SubSeq(gigsetPath, 1, Len(gigsetPath) - 1)
      [] branch = "push" -> Append(gigsetPath, nodeId)
      [] OTHER -> gigsetPath

clickDoes(nodeId, branch, newPath) ==
    /\ gigsetPath' = newPath
    /\ UNCHANGED <<minPitchPerString, maxPitchPerString, showSongs, edits>>
    /\ updateHighlighting(newPath, minPitchPerString, maxPitchPerString)
    /\ event' = [kind |-> "click", on |-> clickedOn(nodeId), did |-> branch]
    /\ UNCHANGED direct

clickTakes(nodeId, branch) == clickDoes(nodeId, branch, pathAfter(branch, nodeId))

handleGigsetClick(nodeId) == clickTakes(nodeId, clickBranch(nodeId))

\* A click that hits no node: params.nodes is empty and nothing runs.
handleGigsetClickNoNode ==
    /\ event' = [kind |-> "click", on |-> "none", did |-> "none"]
    /\ UNCHANGED direct
    /\ UNCHANGED <<gigsetPath, minPitchPerString, maxPitchPerString,
                   cachedAbsolutePitches, showSongs, nodeColor, edits>>

resetGigset ==
    /\ gigsetPath' = <<>>
    /\ UNCHANGED <<minPitchPerString, maxPitchPerString, showSongs, edits>>
    /\ updateHighlighting(<<>>, minPitchPerString, maxPitchPerString)
    /\ event' = [kind |-> "reset", on |-> "none", did |-> "none"]
    /\ UNCHANGED direct

toggleLabels ==
    /\ showSongs' = ~showSongs
    /\ UNCHANGED <<gigsetPath, minPitchPerString, maxPitchPerString, edits>>
    /\ updateHighlighting(gigsetPath, minPitchPerString, maxPitchPerString)
    /\ event' = [kind |-> "toggle", on |-> "none", did |-> "none"]
    /\ UNCHANGED direct

\* The texts typed into a constraint input: E2 (40), C4 (60), and H2, which
\* noteToMidi rejects; and the strings whose inputs are typed into, two of
\* the three strings the edges of the graph retune.
EditTexts == { <<"E", "2">>, <<"C", "4">>, <<"H", "2">> }
EditStrings == {1, 5}

\* A variant of minInput.onchange that moves the max of the string as well
minInputSetsBoth(i, midi) ==
    /\ midi.null \/ edits < MaxEdits
    /\ UNCHANGED direct
    /\ IF ~midi.null
       THEN /\ minPitchPerString' = [minPitchPerString EXCEPT ![i] = midi.v]
            /\ maxPitchPerString' = [maxPitchPerString EXCEPT ![i] = midi.v]
            /\ edits' = edits + 1
            /\ UNCHANGED <<gigsetPath, showSongs>>
            /\ updateHighlighting(gigsetPath,
                                  [minPitchPerString EXCEPT ![i] = midi.v],
                                  [maxPitchPerString EXCEPT ![i] = midi.v])
            /\ event' = [kind |-> "min", on |-> "none", did |-> "set"]
       ELSE /\ event' = [kind |-> "min", on |-> "none", did |-> "red"]
            /\ UNCHANGED <<gigsetPath, minPitchPerString, maxPitchPerString,
                           cachedAbsolutePitches, showSongs, nodeColor, edits>>

\* minInput.onchange of string i, midi being noteToMidi(minInput.value)
minInputSets(i, midi) ==
    /\ midi.null \/ edits < MaxEdits
    /\ UNCHANGED direct
    /\ IF ~midi.null
       THEN /\ minPitchPerString' = [minPitchPerString EXCEPT ![i] = midi.v]
            /\ edits' = edits + 1
            /\ UNCHANGED <<gigsetPath, maxPitchPerString, showSongs>>
            /\ updateHighlighting(gigsetPath,
                                  [minPitchPerString EXCEPT ![i] = midi.v],
                                  maxPitchPerString)
            /\ event' = [kind |-> "min", on |-> "none", did |-> "set"]
       ELSE /\ event' = [kind |-> "min", on |-> "none", did |-> "red"]
            /\ UNCHANGED <<gigsetPath, minPitchPerString, maxPitchPerString,
                           cachedAbsolutePitches, showSongs, nodeColor, edits>>

minInputOnChange(i, value) == minInputSets(i, noteToMidi(value))

\* A variant of maxInput.onchange that writes the bound and recomputes nothing
maxInputSetsNoRefresh(i, midi) ==
    /\ midi.null \/ edits < MaxEdits
    /\ UNCHANGED direct
    /\ IF ~midi.null
       THEN /\ maxPitchPerString' = [maxPitchPerString EXCEPT ![i] = midi.v]
            /\ edits' = edits + 1
            /\ UNCHANGED <<gigsetPath, minPitchPerString, showSongs,
                           cachedAbsolutePitches, nodeColor>>
            /\ event' = [kind |-> "max", on |-> "none", did |-> "set"]
       ELSE /\ event' = [kind |-> "max", on |-> "none", did |-> "red"]
            /\ UNCHANGED <<gigsetPath, minPitchPerString, maxPitchPerString,
                           cachedAbsolutePitches, showSongs, nodeColor, edits>>

\* maxInput.onchange of string i, midi being noteToMidi(maxInput.value)
maxInputSets(i, midi) ==
    /\ midi.null \/ edits < MaxEdits
    /\ UNCHANGED direct
    /\ IF ~midi.null
       THEN /\ maxPitchPerString' = [maxPitchPerString EXCEPT ![i] = midi.v]
            /\ edits' = edits + 1
            /\ UNCHANGED <<gigsetPath, minPitchPerString, showSongs>>
            /\ updateHighlighting(gigsetPath, minPitchPerString,
                                  [maxPitchPerString EXCEPT ![i] = midi.v])
            /\ event' = [kind |-> "max", on |-> "none", did |-> "set"]
       ELSE /\ event' = [kind |-> "max", on |-> "none", did |-> "red"]
            /\ UNCHANGED <<gigsetPath, minPitchPerString, maxPitchPerString,
                           cachedAbsolutePitches, showSongs, nodeColor, edits>>

maxInputOnChange(i, value) == maxInputSets(i, noteToMidi(value))

\* The events of the page, one handler run to completion per step.
Next ==
    \/ \E nodeId \in Nodes : handleGigsetClick(nodeId)
    \/ handleGigsetClickNoNode
    \/ resetGigset
    \/ toggleLabels
    \/ \E i \in EditStrings, value \in EditTexts : minInputOnChange(i, value)
    \/ \E i \in EditStrings, value \in EditTexts : maxInputOnChange(i, value)

Spec == Init /\ [][Next]_vars

(***************************************************************************)
(* The solver called directly.  canAddNode and simulateAbsolutePitches     *)
(* read the path and the two constraint arrays, so these are the inputs:   *)
(* any sequence of nodes (the functions do not require a path the page     *)
(* would have accepted), and any constraints one edit of the inputs can    *)
(* produce.                                                                *)
(***************************************************************************)
EditValues == { noteToMidi(value).v : value \in { t \in EditTexts : ~noteToMidi(t).null } }

Constraints ==
    { <<DefaultMin, DefaultMax>> }
    \cup { <<[DefaultMin EXCEPT ![i] = v], DefaultMax>> : i \in EditStrings, v \in EditValues }
    \cup { <<DefaultMin, [DefaultMax EXCEPT ![i] = v]>> : i \in EditStrings, v \in EditValues }

DirectInit ==
    /\ \E c \in Constraints : minPitchPerString = c[1] /\ maxPitchPerString = c[2]
    /\ cachedAbsolutePitches = <<>>
    /\ showSongs = FALSE
    /\ nodeColor = [id \in Nodes |-> "defaultColor"]
    /\ event = [kind |-> "direct", on |-> "none", did |-> "none"]
    /\ edits = 0
    /\ call = NoCall

page == <<minPitchPerString, maxPitchPerString, cachedAbsolutePitches,
          showSongs, nodeColor, event, edits>>

GateInit ==
    /\ DirectInit
    /\ gigsetPath = <<>>
    /\ label = <<>>
    /\ pitchesIn = <<>>

\* One more node on the path the solver is given
GatePush(nodeId) ==
    /\ Len(gigsetPath) < MaxPathLen
    /\ gigsetPath' = Append(gigsetPath, nodeId)
    /\ call' = NoCall
    /\ UNCHANGED <<page, label, pitchesIn>>

CallCanAddNode(candidateId) ==
    /\ call' = [fn |-> "canAddNode", arg |-> candidateId,
                ret |-> canAddNodeRun(gigsetPath, minPitchPerString,
                                      maxPitchPerString, candidateId)]
    /\ UNCHANGED <<page, gigsetPath, label, pitchesIn>>

CallSimulate ==
    /\ call' = [fn |-> "simulateAbsolutePitches", arg |-> 0,
                ret |-> simulateAbsolutePitches(gigsetPath, minPitchPerString,
                                                maxPitchPerString)]
    /\ UNCHANGED <<page, gigsetPath, label, pitchesIn>>

GateNext ==
    \/ \E nodeId \in Nodes : GatePush(nodeId)
    \/ \E candidateId \in Nodes : CallCanAddNode(candidateId)
    \/ CallSimulate

SpecGate == GateInit /\ [][GateNext]_vars

(***************************************************************************)
(* What the claims speak of, stated without the solver: the windows, the   *)
(* sums of edge deltas along a path, and the existence of a transposition. *)
(***************************************************************************)
\* Every tuning of the sequence has six numbers
SixNumbers(pitches) ==
    \A k \in 1..Len(pitches) :
        /\ Len(pitches[k]) = 6
        /\ \A i \in Strings : ~pitches[k][i].nan

\* Every string of every tuning lies inside its window
InsideWindows(pitches, minP, maxP) ==
    \A k \in 1..Len(pitches) : \A i \in Strings :
        minP[i] <= pitches[k][i].v /\ pitches[k][i].v <= maxP[i]

\* The first node has a label that parses to six pitches, every other node a
\* label that parses, and every consecutive pair an edge with a delta vector
Simulatable(path) ==
    /\ path # <<>>
    /\ \A k \in 1..Len(path) :
           /\ NodeOf(path[k]).tuning_label # <<>>
           /\ ~parsedTuning[path[k]].null
    /\ Len(parsedTuning[path[1]].pitches) = 6
    /\ \A k \in 2..Len(path) : ~getPitchVector(path[k - 1], path[k]).null

\* The sum of the edge deltas from the first node of the path to its k-th
RECURSIVE deltaSum(_, _)
deltaSum(path, k) ==
    IF k = 1 THEN [i \in Strings |-> 0]
    ELSE [i \in Strings |->
             deltaSum(path, k - 1)[i] + getPitchVector(path[k - 1], path[k]).vector[i].v]

\* T places every tuning of the path inside the windows
Realizes(T, path, minP, maxP) ==
    \A k \in 1..Len(path) : \A i \in Strings :
        /\ minP[i] <= parsedTuning[path[1]].pitches[i] + deltaSum(path, k)[i] + T
        /\ parsedTuning[path[1]].pitches[i] + deltaSum(path, k)[i] + T <= maxP[i]

\* The transpositions that place string 1 of the first tuning inside its
\* window: every T that realizes a path is one of them.
Transpositions(path, minP, maxP) ==
    (minP[1] - parsedTuning[path[1]].pitches[1]) ..
        (maxP[1] - parsedTuning[path[1]].pitches[1])

Realizable(path, minP, maxP) ==
    \E T \in Transpositions(path, minP, maxP) : Realizes(T, path, minP, maxP)

(***************************************************************************)
(* C1.  For every path the session has accepted through appends, with the  *)
(* constraints never edited, whenever simulateAbsolutePitches(path) returns *)
(* a sequence (of tunings of six numbers), every string of every tuning of  *)
(* the sequence lies inside its window min_i <= pitch <= max_i.            *)
(* The program does not keep this: the first tuning is placed at the top    *)
(* of its window and later tunings are never moved back into theirs.       *)
(***************************************************************************)
C1_SimulatedStaysInsideWindows ==
    (edits = 0 /\ gigsetPath # <<>>)
        => LET sim == simulateAbsolutePitches(gigsetPath, minPitchPerString,
                                              maxPitchPerString)
           IN  (~sim.null /\ SixNumbers(sim.pitches))
                   => InsideWindows(sim.pitches, minPitchPerString, maxPitchPerString)

(***************************************************************************)
(* C2.  canAddNode called on a non-empty path with a candidate adjacent to *)
(* its last node, every label parsable and every consecutive pair joined    *)
(* by an edge with a delta vector, returns true exactly when one integer T *)
(* places every string of every tuning of path+candidate inside its window. *)
(***************************************************************************)
C2_CanAddNodeIffRealizable ==
    ( /\ call.fn = "canAddNode"
      /\ gigsetPath # <<>>
      /\ call.arg \in getAdjacentNodes(gigsetPath[Len(gigsetPath)])
      /\ Simulatable(Append(gigsetPath, call.arg)) )
        => (call.ret.result <=>
                Realizable(Append(gigsetPath, call.arg),
                           minPitchPerString, maxPitchPerString))

\* canAddNode has refused a candidate although the first tuning alone fits:
\* a later tuning of the path is what leaves no transposition.
C2_Witness ==
    /\ call.fn = "canAddNode"
    /\ Len(gigsetPath) >= 2
    /\ call.arg \in getAdjacentNodes(gigsetPath[Len(gigsetPath)])
    /\ Simulatable(Append(gigsetPath, call.arg))
    /\ ~call.ret.result
    /\ Realizable(<<gigsetPath[1]>>, minPitchPerString, maxPitchPerString)

(***************************************************************************)
(* C3.  The first-node step of simulateAbsolutePitches, for a first tuning *)
(* of six pitches t_i: it reports failure exactly when no integer T has     *)
(* min_i <= t_i + T <= max_i on all six strings; otherwise it takes the     *)
(* largest such T, so that the first absolute tuning returned has every     *)
(* string inside its window and at least one string exactly at its max.    *)
(***************************************************************************)
C3_FirstTranspositionIsLargest ==
    ( /\ call.fn = "simulateAbsolutePitches"
      /\ gigsetPath # <<>>
      /\ Simulatable(<<gigsetPath[1]>>) )
        => LET rel == parsedTuning[gigsetPath[1]].pitches
               first == firstTransposition(rel, minPitchPerString, maxPitchPerString)
               one == <<gigsetPath[1]>>
               range == Transpositions(one, minPitchPerString, maxPitchPerString)
           IN  /\ first.null <=> ~Realizable(one, minPitchPerString, maxPitchPerString)
               /\ first.null => call.ret.null
               /\ ~first.null =>
                      /\ Realizes(first.t.v, one, minPitchPerString, maxPitchPerString)
                      /\ \A T \in range :
                             Realizes(T, one, minPitchPerString, maxPitchPerString)
                                 => T <= first.t.v
                      /\ \E i \in Strings : rel[i] + first.t.v = maxPitchPerString[i]
               /\ ~call.ret.null =>
                      /\ call.ret.pitches[1] = [i \in Strings |-> Num(rel[i] + first.t.v)]
                      /\ InsideWindows(<<call.ret.pitches[1]>>,
                                       minPitchPerString, maxPitchPerString)

\* A first tuning placed with a string to spare: some string sits below its max
C3_Witness ==
    /\ call.fn = "simulateAbsolutePitches"
    /\ gigsetPath # <<>>
    /\ Simulatable(<<gigsetPath[1]>>)
    /\ ~call.ret.null
    /\ \E i \in Strings : call.ret.pitches[1][i].v < maxPitchPerString[i]
    /\ \E i \in Strings : call.ret.pitches[1][i].v = maxPitchPerString[i]

(***************************************************************************)
(* C5.  A click on a node that is not in the path asks for the node to be  *)
(* appended; the path becomes path + [n] exactly when canAddNode(n) is     *)
(* true, and is left as it was otherwise.                                  *)
(***************************************************************************)
C5_AppendIffCanAddNode ==
    [][ (event'.kind = "click" /\ event'.on = "notInPath")
          => \A nodeId \in Nodes :
                 ( /\ ~Includes(gigsetPath, nodeId)
                   /\ gigsetPath' = pathAfter(event'.did, nodeId)
                   /\ event'.did = clickBranch(nodeId) )
                     => /\ (gigsetPath' = Append(gigsetPath, nodeId))
                               <=> canAddNode(gigsetPath, minPitchPerString,
                                              maxPitchPerString, nodeId)
                        /\ gigsetPath' \in {gigsetPath, Append(gigsetPath, nodeId)} ]_vars

\* A click has appended a third node after canAddNode simulated the path, and
\* the page shows a neighbour of the new last node that a click would refuse
C5_Witness ==
    /\ event = [kind |-> "click", on |-> "notInPath", did |-> "push"]
    /\ Len(gigsetPath) >= 3
    /\ \E nodeId \in Nodes : nodeColor[nodeId] = "#aaaaaa"

(***************************************************************************)
(* C6.  Undo follows stack discipline: a click on the last node of the     *)
(* path removes exactly that element and leaves the prefix as it was; a    *)
(* click on a node of the path that is not its last leaves the path as it  *)
(* was.                                                                    *)
(***************************************************************************)
C6_UndoIsStackDiscipline ==
    [][ /\ (event'.kind = "click" /\ event'.on = "last")
            => gigsetPath' = SubSeq(gigsetPath, 1, Len(gigsetPath) - 1)
        /\ (event'.kind = "click" /\ event'.on = "inPath")
            => gigsetPath' = gigsetPath ]_vars

\* A click has landed on a node of a path of three that is not its last, a
\* node next to the last one, and has done nothing
C6_Witness ==
    /\ event = [kind |-> "click", on |-> "inPath", did |-> "none"]
    /\ Len(gigsetPath) >= 3
    /\ \E k \in 1..(Len(gigsetPath) - 1) :
           gigsetPath[k] \in getAdjacentNodes(gigsetPath[Len(gigsetPath)])

(***************************************************************************)
(* C7.  canAddNode called on a non-empty path with a candidate that is not *)
(* adjacent to the last node returns false, and returns before it calls    *)
(* simulateAbsolutePitches.                                                *)
(***************************************************************************)
C7_NonAdjacentRefusedUnsimulated ==
    ( /\ call.fn = "canAddNode"
      /\ gigsetPath # <<>>
      /\ call.arg \notin getAdjacentNodes(gigsetPath[Len(gigsetPath)]) )
        => (~call.ret.result /\ ~call.ret.simulated)

\* canAddNode has refused a non-adjacent candidate whose label parses, on a
\* path that simulates and fits the constraints
C7_Witness ==
    /\ call.fn = "canAddNode"
    /\ Len(gigsetPath) >= 2
    /\ call.arg \notin getAdjacentNodes(gigsetPath[Len(gigsetPath)])
    /\ ~Includes(gigsetPath, call.arg)
    /\ ~parsedTuning[call.arg].null
    /\ Simulatable(gigsetPath)
    /\ Realizable(gigsetPath, minPitchPerString, maxPitchPerString)
    /\ ~call.ret.result

(***************************************************************************)
(* C8.  canAddNode called on the empty path returns true for every         *)
(* candidate, whatever the constraints are and whether or not the          *)
(* candidate's label parses or fits them.                                  *)
(***************************************************************************)
C8_EmptyPathAcceptsAny ==
    (call.fn = "canAddNode" /\ gigsetPath = <<>>) => call.ret.result

\* canAddNode has accepted, on the empty path, a node whose label does not
\* parse, under constraints no pitch can satisfy on some string
C8_Witness ==
    /\ call.fn = "canAddNode"
    /\ gigsetPath = <<>>
    /\ parsedTuning[call.arg].null
    /\ \E i \in Strings : minPitchPerString[i] > maxPitchPerString[i]
    /\ call.ret.result

(***************************************************************************)
(* isTranspositionPossible called directly on a sequence of tunings of six *)
(* integers, under the constraints of DirectInit.                          *)
(***************************************************************************)
\* The standard tuning at the top of the default windows, moved as a whole
\* or on one of the strings the edges of the graph retune
BaseTuning == <<40, 45, 50, 55, 59, 64>>

TuningInputs ==
    { [i \in Strings |-> BaseTuning[i] + d] : d \in {-4, -2, 0, 1} }
    \cup { [BaseTuning EXCEPT ![i] = @ + d] : i \in {1, 5, 6}, d \in {-2, 1} }

\* The array of arrays of numbers the function is given
numbersOf(tunings) ==
    [k \in 1..Len(tunings) |-> [i \in 1..Len(tunings[k]) |-> Num(tunings[k][i])]]

FeasInit ==
    /\ DirectInit
    /\ gigsetPath = <<>>
    /\ label = <<>>
    /\ pitchesIn = <<>>

FeasPush(tuning) ==
    /\ Len(pitchesIn) < MaxTunings
    /\ pitchesIn' = Append(pitchesIn, tuning)
    /\ call' = NoCall
    /\ UNCHANGED <<page, gigsetPath, label>>

CallIsTranspositionPossible ==
    /\ call' = [fn |-> "isTranspositionPossible", arg |-> 0,
                ret |-> isTranspositionPossible(numbersOf(pitchesIn),
                                                minPitchPerString, maxPitchPerString)]
    /\ UNCHANGED <<page, gigsetPath, label, pitchesIn>>

FeasNext ==
    \/ \E tuning \in TuningInputs : FeasPush(tuning)
    \/ CallIsTranspositionPossible

SpecFeas == FeasInit /\ [][FeasNext]_vars

\* S puts every pitch of every tuning inside the window of its string
ShiftFits(S, tunings, minP, maxP) ==
    \A k \in 1..Len(tunings) : \A i \in Strings :
        minP[i] <= tunings[k][i] + S /\ tunings[k][i] + S <= maxP[i]

\* The shifts that put string 1 of the first tuning inside its window: every
\* shift that fits is one of them.
Shifts(tunings, minP, maxP) == (minP[1] - tunings[1][1]) .. (maxP[1] - tunings[1][1])

(***************************************************************************)
(* C4.  For every non-empty sequence of tunings of six integers,           *)
(* isTranspositionPossible returns true exactly when one integer shift S   *)
(* puts every pitch of every tuning inside the window of its string, that  *)
(* is, when the windows [min_i - pitch, max_i - pitch] of all strings of   *)
(* all tunings have a common point.                                        *)
(***************************************************************************)
C4_FeasibleIffCommonShift ==
    (call.fn = "isTranspositionPossible" /\ pitchesIn # <<>>)
        => (call.ret <=>
                \E S \in Shifts(pitchesIn, minPitchPerString, maxPitchPerString) :
                    ShiftFits(S, pitchesIn, minPitchPerString, maxPitchPerString))

\* isTranspositionPossible has refused two tunings each of which has a shift
\* of its own
C4_Witness ==
    /\ call.fn = "isTranspositionPossible"
    /\ Len(pitchesIn) = 2
    /\ call.ret = FALSE
    /\ \A k \in 1..2 :
           \E S \in Shifts(<<pitchesIn[k]>>, minPitchPerString, maxPitchPerString) :
               ShiftFits(S, <<pitchesIn[k]>>, minPitchPerString, maxPitchPerString)

(***************************************************************************)
(* parseMonotonicTuning called directly on a label: tokens separated by    *)
(* one space, after nothing or after leading whitespace, or the label of   *)
(* the standard tuning.                                                    *)
(***************************************************************************)
\* A natural, a flat, a lower-case sharp with an octave, a natural with a
\* negative octave, and a letter that names no note
TokenInputs ==
    { <<"E">>, <<"C", "b">>, <<"a", "#", "2">>, <<"E", "-", "1">>, <<"H">> }

\* The tokens of a label: what split leaves of it once trimmed
tokensOf(text) == IF Trim(text) = <<>> THEN <<>> ELSE SplitWs(Trim(text))

NormInit ==
    /\ DirectInit
    /\ minPitchPerString = DefaultMin
    /\ maxPitchPerString = DefaultMax
    /\ gigsetPath = <<>>
    /\ pitchesIn = <<>>
    /\ label \in { <<>>, <<"\t", " ">>, StandardLabel }

AppendToken(token) ==
    /\ Len(tokensOf(label)) < MaxTokens
    /\ label' = IF tokensOf(label) = <<>> THEN label \o token
                ELSE label \o <<" ">> \o token
    /\ call' = NoCall
    /\ UNCHANGED <<page, gigsetPath, pitchesIn>>

CallParseMonotonicTuning ==
    /\ call' = [fn |-> "parseMonotonicTuning", arg |-> 0,
                ret |-> parseMonotonicTuning(label)]
    /\ UNCHANGED <<page, gigsetPath, pitchesIn, label>>

NormNext ==
    \/ \E token \in TokenInputs : AppendToken(token)
    \/ CallParseMonotonicTuning

SpecNorm == NormInit /\ [][NormNext]_vars

\* The pitch class the table gives a token: C:0 D:2 E:4 F:5 G:7 A:9 B:11 for
\* its letter, +1 for a sharp and -1 for a flat, taken mod 12
TablePitchClass(token) ==
    LET natural == CASE token[1] \in {"C", "c"} -> 0 [] token[1] \in {"D", "d"} -> 2
                     [] token[1] \in {"E", "e"} -> 4 [] token[1] \in {"F", "f"} -> 5
                     [] token[1] \in {"G", "g"} -> 7 [] token[1] \in {"A", "a"} -> 9
                     [] token[1] \in {"B", "b"} -> 11
        shift == IF Len(token) >= 2 /\ token[2] = "#" THEN 1
                 ELSE IF Len(token) >= 2 /\ token[2] = "b" THEN -1
                 ELSE 0
    IN  (natural + shift) % 12

StrictlyIncreasing(pitches) ==
    \A k \in 2..Len(pitches) : pitches[k - 1] < pitches[k]

\* pitches[k] is j * 12 + pc for the least j >= 0 that puts it above the
\* pitch before it (the first pitch is pc itself)
LeastOctaveAbove(pitches, k, pc) ==
    /\ pitches[k] >= pc
    /\ (pitches[k] - pc) % 12 = 0
    /\ IF k = 1 THEN pitches[k] = pc
       ELSE /\ pitches[k] > pitches[k - 1]
            /\ pitches[k] = pc \/ pitches[k] - 12 <= pitches[k - 1]

(***************************************************************************)
(* C9.  For every label, parseMonotonicTuning returns null or a strictly   *)
(* increasing sequence of exactly six integers.                            *)
(* The program does not keep this: it never counts the tokens, and returns *)
(* as many pitches as the label has tokens.                                *)
(***************************************************************************)
C9_NullOrSixIncreasing ==
    (call.fn = "parseMonotonicTuning" /\ ~call.ret.null)
        => (Len(call.ret.pitches) = 6 /\ StrictlyIncreasing(call.ret.pitches))

(***************************************************************************)
(* C10.  For every label parseMonotonicTuning accepts, the pitch class of  *)
(* each token is the table's, within 0..11, and the pitch of each string   *)
(* is k * 12 + pc for the least k >= 0 that puts it above the pitch of the *)
(* string before it.                                                       *)
(* The program does not keep this: the remainder it takes of a negative    *)
(* note number is negative.                                                *)
(***************************************************************************)
C10_TablePitchClassLeastOctave ==
    (call.fn = "parseMonotonicTuning" /\ ~call.ret.null)
        => /\ Len(call.ret.pitches) = Len(tokensOf(label))
           /\ \A k \in 1..Len(call.ret.pitches) :
                  /\ pitchClassesOf(label).pitchClasses[k] \in 0..11
                  /\ pitchClassesOf(label).pitchClasses[k]
                         = TablePitchClass(tokensOf(label)[k])
                  /\ LeastOctaveAbove(call.ret.pitches, k,
                                      TablePitchClass(tokensOf(label)[k]))

(***************************************************************************)
(* C11.  For the label "E A D G B E", parseMonotonicTuning maps the tokens *)
(* to the pitch classes [4, 9, 2, 7, 11, 4] and returns                    *)
(* [4, 9, 14, 19, 23, 28]: each pitch the least of its class above the one *)
(* before it.                                                              *)
(***************************************************************************)
C11_StandardTuningPitches ==
    (call.fn = "parseMonotonicTuning" /\ label = StandardLabel)
        => /\ pitchClassesOf(label) =
                  [null |-> FALSE, pitchClasses |-> <<4, 9, 2, 7, 11, 4>>]
           /\ call.ret = [null |-> FALSE, pitches |-> <<4, 9, 14, 19, 23, 28>>]

\* parseMonotonicTuning has been called on "E A D G B E" and has returned pitches
C11_Witness ==
    /\ call.fn = "parseMonotonicTuning"
    /\ label = StandardLabel
    /\ ~call.ret.null
    /\ Len(call.ret.pitches) = 6

\* C11 as first stated: the sequence returned is [4, 21, 26, 31, 35, 40]
C11_StandardTuningAsStated ==
    (call.fn = "parseMonotonicTuning" /\ label = StandardLabel)
        => /\ pitchClassesOf(label) =
                  [null |-> FALSE, pitchClasses |-> <<4, 9, 2, 7, 11, 4>>]
           /\ call.ret = [null |-> FALSE, pitches |-> <<4, 21, 26, 31, 35, 40>>]

\* The note-name grammar: a letter A-G, an optional # or b, optional octave
\* digits
InGrammar(token) ==
    /\ token # <<>>
    /\ token[1] \in {"A", "B", "C", "D", "E", "F", "G"}
    /\ LET rest == IF Len(token) >= 2 /\ token[2] \in {"#", "b"}
                   THEN SubSeq(token, 3, Len(token))
                   ELSE Tail(token)
       IN  \A k \in 1..Len(rest) : rest[k] \in Digits

(***************************************************************************)
(* C12.  If any token of a label does not match the note-name grammar,     *)
(* parseMonotonicTuning returns null for the whole label: every token the  *)
(* grammar does not admit is rejected.                                     *)
(* The program does not keep this: its regular expression admits a lower-  *)
(* case letter and a minus sign before the octave digits.                  *)
(***************************************************************************)
C12_OutsideGrammarRejected ==
    ( /\ call.fn = "parseMonotonicTuning"
      /\ \E k \in 1..Len(tokensOf(label)) : ~InGrammar(tokensOf(label)[k]) )
        => call.ret.null

(***************************************************************************)
(* getPitchVector called directly on a pair of nodes.                      *)
(***************************************************************************)
CallGetPitchVector(fromId, toId) ==
    /\ call' = [fn |-> "getPitchVector", arg |-> <<fromId, toId>>,
                ret |-> getPitchVector(fromId, toId)]
    /\ UNCHANGED <<page, gigsetPath, label, pitchesIn>>

EdgeNext == \E fromId \in Nodes, toId \in Nodes : CallGetPitchVector(fromId, toId)

SpecEdge == GateInit /\ [][EdgeNext]_vars

\* The six integers the pitch_vector of every edge of EdgeData spells
\* (none for edge 5), written out as numbers
StoredDelta ==
    << <<-2, 0, 0, 0, 0, 0>>, <<0, 0, 0, 0, 0, 2>>, <<0, 0, 0, 0, 1, 0>>,
       <<0, 0, 0, 0, 0, 0>>, <<>>, <<0, 0, 0, 0, 0, 0>>,
       <<-2, 0, 0, 0, 0, 0>>, <<-2, 0, 0, 0, -1, -2>> >>

\* The edges that join two nodes and carry six integers
EdgesJoining(a, b) ==
    { k \in 1..Len(EdgeData) : Connects(k, a, b) /\ Len(StoredDelta[k]) = 6 }

(***************************************************************************)
(* C13.  For every pair of nodes A, B joined by an edge carrying a vector  *)
(* of six integers, stored in either direction: getPitchVector(A, B)       *)
(* negated element by element is getPitchVector(B, A); the vector returned *)
(* is the stored one when the edge is stored A -> B and its additive       *)
(* inverse when it is stored B -> A.                                       *)
(***************************************************************************)
C13_PitchVectorAntisymmetric ==
    (call.fn = "getPitchVector" /\ EdgesJoining(call.arg[1], call.arg[2]) # {})
        => LET k == CHOOSE e \in EdgesJoining(call.arg[1], call.arg[2]) : TRUE
               back == getPitchVector(call.arg[2], call.arg[1])
           IN  /\ ~call.ret.null
               /\ ~back.null
               /\ back.vector = [i \in Strings |-> Neg(call.ret.vector[i])]
               /\ call.ret.vector =
                      IF EdgeData[k].from = call.arg[1]
                      THEN [i \in Strings |-> Num(StoredDelta[k][i])]
                      ELSE [i \in Strings |-> Num(0 - StoredDelta[k][i])]

\* getPitchVector has been asked for an edge against its stored direction,
\* and the vector has an entry that is not 0
C13_Witness ==
    /\ call.fn = "getPitchVector"
    /\ \E k \in EdgesJoining(call.arg[1], call.arg[2]) :
           /\ EdgeData[k].to = call.arg[1]
           /\ \E i \in Strings : StoredDelta[k][i] # 0
           /\ call.ret.vector = [i \in Strings |-> Num(0 - StoredDelta[k][i])]

\* The pitch a text of EditTexts names (E2 is 40, C4 is 60), or -1 for H2,
\* which names none
PitchNamed(value) ==
    CASE value = <<"E", "2">> -> 40
      [] value = <<"C", "4">> -> 60
      [] OTHER -> -1

(***************************************************************************)
(* C14.  A constraint edit whose text does not parse is signalled (the     *)
(* input's border turns red) and leaves all twelve bounds, the path and    *)
(* the cached pitches as they were; an edit whose text parses replaces     *)
(* exactly the addressed bound of the addressed string with the pitch      *)
(* named, and no other bound.                                              *)
(***************************************************************************)
C14_EditSetsOneBoundOrNone ==
    [][ (event'.kind \in {"min", "max"})
          => \A i \in EditStrings, value \in EditTexts :
                 /\ minInputOnChange(i, value)
                        => IF PitchNamed(value) = -1
                           THEN /\ event'.did = "red"
                                /\ UNCHANGED <<minPitchPerString, maxPitchPerString,
                                               gigsetPath, cachedAbsolutePitches>>
                           ELSE /\ event'.did = "set"
                                /\ minPitchPerString' =
                                       [minPitchPerString EXCEPT ![i] = PitchNamed(value)]
                                /\ UNCHANGED <<maxPitchPerString, gigsetPath>>
                 /\ maxInputOnChange(i, value)
                        => IF PitchNamed(value) = -1
                           THEN /\ event'.did = "red"
                                /\ UNCHANGED <<minPitchPerString, maxPitchPerString,
                                               gigsetPath, cachedAbsolutePitches>>
                           ELSE /\ event'.did = "set"
                                /\ maxPitchPerString' =
                                       [maxPitchPerString EXCEPT ![i] = PitchNamed(value)]
                                /\ UNCHANGED <<minPitchPerString, gigsetPath>> ]_vars

\* An edit has been rejected on a path of two nodes with pitches cached,
\* after an edit that was accepted
C14_Witness ==
    /\ event.kind \in {"min", "max"}
    /\ event.did = "red"
    /\ Len(gigsetPath) >= 2
    /\ cachedAbsolutePitches # <<>>
    /\ edits >= 1

\* Why simulateAbsolutePitches fails on a path, in the order in which it
\* tests: no tuning data for the first node, constraints unsatisfiable at the
\* first node, no edge or no vector between two consecutive nodes
FailureCause(path, minP, maxP) ==
    IF path = <<>> \/ ~HasNode(path[1]) \/ NodeOf(path[1]).tuning_label = <<>>
           \/ parsedTuning[path[1]].null
    THEN "noTuningData"
    ELSE IF firstTransposition(parsedTuning[path[1]].pitches, minP, maxP).null
    THEN "unsatisfiable"
    ELSE IF \E k \in 2..Len(path) : getPitchVector(path[k - 1], path[k]).null
    THEN "noEdge"
    ELSE "none"

\* The paths of one or two nodes
ShortPaths == { <<a>> : a \in Nodes } \cup { <<a, b>> : a \in Nodes, b \in Nodes }

(***************************************************************************)
(* C15.  When simulateAbsolutePitches fails, its result tells the cause:   *)
(* two failures with different causes return different results.            *)
(* The program does not keep this: every failure returns null.             *)
(***************************************************************************)
C15_FailureCausesDistinguished ==
    (call.fn = "simulateAbsolutePitches" /\ gigsetPath # <<>> /\ call.ret.null)
        => \A other \in ShortPaths :
               ( /\ simulateAbsolutePitches(other, minPitchPerString,
                                            maxPitchPerString).null
                 /\ FailureCause(other, minPitchPerString, maxPitchPerString)
                        # FailureCause(gigsetPath, minPitchPerString,
                                       maxPitchPerString) )
                   => simulateAbsolutePitches(other, minPitchPerString,
                                              maxPitchPerString) # call.ret

(***************************************************************************)
(* C16.  The cache never goes stale: after every event (node click, reset, *)
(* label toggle, accepted or rejected constraint edit)                     *)
(* cachedAbsolutePitches is simulateAbsolutePitches of the current path    *)
(* under the current constraints, or the empty sequence when that          *)
(* simulation fails.                                                       *)
(***************************************************************************)
C16_CacheIsCurrent ==
    LET sim == simulateAbsolutePitches(gigsetPath, minPitchPerString,
                                       maxPitchPerString)
    IN  cachedAbsolutePitches = IF sim.null THEN <<>> ELSE sim.pitches

\* An accepted constraint edit has emptied the cache of a path of two nodes
C16_Witness ==
    /\ event.kind \in {"min", "max"}
    /\ event.did = "set"
    /\ Len(gigsetPath) >= 2
    /\ cachedAbsolutePitches = <<>>

(***************************************************************************)
(* C17.  Feasibility is monotone under truncation: if                      *)
(* isTranspositionPossible(simulateAbsolutePitches(path)) is true, then    *)
(* for every non-empty path obtained by removing elements from the end,    *)
(* the simulation recomputed on the shorter path succeeds and              *)
(* isTranspositionPossible of it is true.                                  *)
(***************************************************************************)
C17_FeasibleUnderTruncation ==
    ( /\ call.fn = "simulateAbsolutePitches"
      /\ ~call.ret.null
      /\ isTranspositionPossible(call.ret.pitches, minPitchPerString,
                                 maxPitchPerString) )
        => \A n \in 1..(Len(gigsetPath) - 1) :
               LET shorter == simulateAbsolutePitches(SubSeq(gigsetPath, 1, n),
                                                      minPitchPerString,
                                                      maxPitchPerString)
               IN  /\ ~shorter.null
                   /\ shorter.pitches = SubSeq(call.ret.pitches, 1, n)
                   /\ isTranspositionPossible(shorter.pitches, minPitchPerString,
                                              maxPitchPerString)

\* A path of three nodes and two different retunings has been simulated and
\* found feasible
C17_Witness ==
    /\ call.fn = "simulateAbsolutePitches"
    /\ Len(gigsetPath) = 3
    /\ ~call.ret.null
    /\ call.ret.pitches[1] # call.ret.pitches[2]
    /\ call.ret.pitches[2] # call.ret.pitches[3]
    /\ call.ret.pitches[1] # call.ret.pitches[3]
    /\ isTranspositionPossible(call.ret.pitches, minPitchPerString, maxPitchPerString)

(***************************************************************************)
(* midiToNote, and noteToMidi called directly on what it returns.          *)
(***************************************************************************)
NOTE_NAMES ==
    << <<"C">>, <<"C", "#">>, <<"D">>, <<"D", "#">>, <<"E">>, <<"F">>,
       <<"F", "#">>, <<"G">>, <<"G", "#">>, <<"A">>, <<"A", "#">>, <<"B">> >>

DigitChar(d) ==
    CASE d = 0 -> "0" [] d = 1 -> "1" [] d = 2 -> "2" [] d = 3 -> "3"
      [] d = 4 -> "4" [] d = 5 -> "5" [] d = 6 -> "6" [] d = 7 -> "7"
      [] d = 8 -> "8" [] d = 9 -> "9"

\* The decimal digits of a natural number
RECURSIVE DigitsOf(_)
DigitsOf(n) ==
    IF n < 10 THEN <<DigitChar(n)>>
    ELSE Append(DigitsOf(n \div 10), DigitChar(n % 10))

\* The text "+" makes of an integer: its digits, after "-" when negative
NumberToString(n) == IF n < 0 THEN <<"-">> \o DigitsOf(0 - n) ELSE DigitsOf(n)

\* A variant of midiToNote that numbers the octaves from 0
midiToNoteFromZero(midiNumber) ==
    NOTE_NAMES[(midiNumber % 12) + 1] \o NumberToString(midiNumber \div 12)

\* For midiNumber >= 0 (a negative one has no entry in NOTE_NAMES)
midiToNote(midiNumber) ==
    NOTE_NAMES[(midiNumber % 12) + 1] \o NumberToString((midiNumber \div 12) - 1)

\* The pitches of the MIDI range
MidiRange == 0..127

CallNoteToMidiOfMidiToNote(midiNumber) ==
    /\ label' = midiToNote(midiNumber)
    /\ call' = [fn |-> "noteToMidi", arg |-> midiNumber,
                ret |-> noteToMidi(midiToNote(midiNumber))]
    /\ UNCHANGED <<page, gigsetPath, pitchesIn>>

MidiNext == \E midiNumber \in MidiRange : CallNoteToMidiOfMidiToNote(midiNumber)

SpecMidi == GateInit /\ [][MidiNext]_vars

(***************************************************************************)
(* C18.  For every pitch p of the MIDI range 0..127,                       *)
(* noteToMidi(midiToNote(p)) = p.                                          *)
(***************************************************************************)
C18_NoteToMidiOfMidiToNote ==
    (call.fn = "noteToMidi" /\ call.arg \in MidiRange)
        => call.ret = [null |-> FALSE, v |-> call.arg]

\* The round trip has gone through a sharp in the octave numbered -1
C18_Witness ==
    /\ call.fn = "noteToMidi"
    /\ call.arg = 1
    /\ label = <<"C", "#", "-", "1">>
    /\ call.ret = [null |-> FALSE, v |-> 1]

(***************************************************************************)
(* C19.  Highlighting and click handling use the same gate: in every       *)
(* state, a node has the highlight colour exactly when a click on it in    *)
(* that state would append it to the path.                                 *)
(***************************************************************************)
C19_HighlightIffClickAppends ==
    \A nodeId \in Nodes :
        (nodeColor[nodeId] = "highlightColor")
            <=> (pathAfter(clickBranch(nodeId), nodeId) = Append(gigsetPath, nodeId))

\* On a path of two nodes the last node has a neighbour that is highlighted
\* and a neighbour outside the path that is not
C19_Witness ==
    /\ Len(gigsetPath) >= 2
    /\ \E nodeId \in Nodes : nodeColor[nodeId] = "highlightColor"
    /\ \E nodeId \in Nodes : nodeColor[nodeId] = "#aaaaaa"

(***************************************************************************)
(* C20.  In every state reached from the empty path by clicks, resets and  *)
(* constraint edits, the path is a simple path of the graph: no node       *)
(* identifier occurs in it twice, and every two consecutive elements are   *)
(* the ends of some edge.                                                  *)
(***************************************************************************)
C20_PathIsSimple ==
    /\ \A i, j \in 1..Len(gigsetPath) :
           i # j => gigsetPath[i] # gigsetPath[j]
    /\ \A i \in 1..(Len(gigsetPath) - 1) :
           \E k \in 1..Len(EdgeData) :
               Connects(k, gigsetPath[i], gigsetPath[i + 1])

\* After a constraint edit, a push has produced a path whose last node is
\* joined to its first by an edge: one more push would close a cycle
C20_Witness ==
    /\ Len(gigsetPath) >= 3
    /\ edits >= 1
    /\ event.kind = "click"
    /\ event.did = "push"
    /\ \E k \in 1..Len(EdgeData) :
           Connects(k, gigsetPath[1], gigsetPath[Len(gigsetPath)])

\* A path of two nodes or more simulates, and its simulated sequence is
\* feasible under the constraints
LongPathFeasible(path, minP, maxP) ==
    Len(path) >= 2
        => /\ ~simulateAbsolutePitches(path, minP, maxP).null
           /\ isTranspositionPossible(
                  simulateAbsolutePitches(path, minP, maxP).pitches, minP, maxP)

\* The bounds that differ between two constraint vectors
Changed(before, after) == { i \in Strings : before[i] # after[i] }

(***************************************************************************)
(* C21.  With the constraints held fixed, every path of two nodes or more  *)
(* reached from the empty path by clicks and resets simulates and its      *)
(* simulated sequence is feasible: it holds while no bound has been        *)
(* edited, and every click or reset keeps it under the constraints of the  *)
(* step.  A constraint edit changes at most the one bound it addresses     *)
(* and never writes the path.                                              *)
(***************************************************************************)
C21_AcceptedPathStaysFeasible ==
    /\ [](edits = 0 => LongPathFeasible(gigsetPath, minPitchPerString,
                                         maxPitchPerString))
    /\ [][ /\ (event'.kind \in {"click", "reset"})
                => /\ UNCHANGED <<minPitchPerString, maxPitchPerString>>
                   /\ LongPathFeasible(gigsetPath, minPitchPerString,
                                       maxPitchPerString)
                          => LongPathFeasible(gigsetPath', minPitchPerString,
                                              maxPitchPerString)
           /\ (event'.kind \in {"min", "max"})
                => /\ UNCHANGED gigsetPath
                   /\ Cardinality(Changed(minPitchPerString, minPitchPerString')) +
                      Cardinality(Changed(maxPitchPerString, maxPitchPerString')) <= 1
         ]_vars

\* After a constraint edit, a click has appended a third node to a path and
\* the path of three is feasible under the edited constraints
C21_Witness ==
    /\ edits >= 1
    /\ event.kind = "click"
    /\ event.did = "push"
    /\ Len(gigsetPath) >= 3
    /\ <<minPitchPerString, maxPitchPerString>> # <<DefaultMin, DefaultMax>>
    /\ LongPathFeasible(gigsetPath, minPitchPerString, maxPitchPerString)

\* The transposition T places the six strings of the tuning inside their
\* windows
FitsWindows(tuning, T, minP, maxP) ==
    \A i \in Strings : minP[i] <= tuning[i] + T /\ tuning[i] + T <= maxP[i]

\* No transposition fits the tuning into the constraints: it has fewer than
\* six pitches, or no T places all six strings inside their windows
NoTranspositionFits(tuning, minP, maxP) ==
    \/ Len(tuning) < 6
    \/ ~\E T \in (minP[1] - tuning[1])..(maxP[1] - tuning[1]) :
            FitsWindows(tuning, T, minP, maxP)

\* The node has no tuning label, a label that does not parse, or a tuning
\* that no transposition fits into the constraints
DeadFirstNode(nodeId, minP, maxP) ==
    IF NodeOf(nodeId).tuning_label = <<>> THEN TRUE
    ELSE IF parsedTuning[nodeId].null THEN TRUE
    ELSE NoTranspositionFits(parsedTuning[nodeId].pitches, minP, maxP)

DeadEnd ==
    /\ Len(gigsetPath) = 1
    /\ DeadFirstNode(gigsetPath[1], minPitchPerString, maxPitchPerString)

(***************************************************************************)
(* C22.  The first node is admitted without any check, so a path of one    *)
(* node whose node has no tuning label, a label that does not parse, or a  *)
(* tuning that no transposition fits into the constraints is a dead end:   *)
(* under the constraints of the state canAddNode is false for every        *)
(* candidate, no node has the highlight colour, and the only click that    *)
(* changes the path is the click on that first node, which removes it.     *)
(***************************************************************************)
C22_DeadEndFirstNode ==
    /\ [](DeadEnd =>
            \A nodeId \in Nodes :
                /\ ~canAddNode(gigsetPath, minPitchPerString, maxPitchPerString,
                               nodeId)
                /\ nodeColor[nodeId] # "highlightColor"
                /\ pathAfter(clickBranch(nodeId), nodeId) # gigsetPath
                       => /\ nodeId = gigsetPath[1]
                          /\ pathAfter(clickBranch(nodeId), nodeId) = <<>>)
    /\ [][ (/\ Len(gigsetPath) = 1
            /\ event'.kind = "click"
            /\ gigsetPath' # gigsetPath
            /\ DeadEnd)
               => /\ gigsetPath' = <<>>
                  /\ event'.on = "last"
                  /\ event'.did = "pop" ]_vars

\* After an edit that makes the constraints unsatisfiable, the first click
\* has admitted a node with a tuning of six pitches and a click on a
\* neighbour of it has been refused
C22_Witness ==
    /\ DeadEnd
    /\ NodeOf(gigsetPath[1]).tuning_label # <<>>
    /\ ~parsedTuning[gigsetPath[1]].null
    /\ Len(parsedTuning[gigsetPath[1]].pitches) = 6
    /\ event.kind = "click"
    /\ event.on = "notInPath"
    /\ event.did = "none"
    /\ \E nodeId \in getAdjacentNodes(gigsetPath[1]) : nodeColor[nodeId] = "#aaaaaa"

====
